---- MODULE Spec2Model ----
(***************************************************************************)
(* Model of motd (main.go): the date -> image mapper (ImageMapper), the    *)
(* refresh of the published asset (updateImageForToday, copyFile), the     *)
(* midnight loop (scheduleImageUpdates), the start-up sequence of main    *)
(* and the loads of the published filename by the HTTP handlers.           *)
(*                                                                         *)
(* Time is counted in units of 1/UnitsPerDay of a day; instant 0 is        *)
(* 2000-01-01 00:00 UTC.  A location is an offset from UTC in the same     *)
(* units, with at most one daylight-saving transition that moves the local *)
(* clock by one unit.  A calendar date string "YYYY-MM-DD" is represented by the  *)
(* number of the local day it names (day 0 = 2000-01-01).  An image name   *)
(* is a non-empty sequence of character codes; the Go empty string is the  *)
(* empty sequence.                                                         *)
(***************************************************************************)
EXTENDS Integers, Sequences, FiniteSets, TLC

VARIABLES
    now,                 \* the wall clock (time.Now()), an instant
    location,            \* the configured *time.Location: [off, at, shift]
    sha,                 \* sha[<<dateStr, img>>]: first 8 bytes of SHA-256(SHA-256(dateStr) || img)
    imageDir,            \* the .jpg/.jpeg base names under imageDir, in filepath.Walk's order
    assetFiles,          \* the files of assetDir: name -> content
    assetImageFilename,  \* the published filename ("" = NoName)
    imageMutex,          \* number of tokens in the capacity-one channel
    pc,                  \* where each goroutine is
    images,              \* updateImageForToday: images (getImageList's result)
    mapper,              \* the ImageMapper's images field
    today,               \* updateImageForToday: today / GetImageForDate: date
    selectedImage,       \* updateImageForToday: selectedImage
    err,                 \* the last error value ("nil" when none)
    sleepLeft,           \* scheduleImageUpdates: what is left of time.Sleep(duration)
    entry,               \* history: filename and asset files when the lock was taken,
                         \* and whether os.Remove has failed since
    outcome,             \* history: the exit path the refresh took
    seen                 \* the string header an HTTP handler has read last from
                         \* assetImageFilename: [by, ptr, len]

vars == <<now, location, sha, imageDir, assetFiles, assetImageFilename, imageMutex,
          pc, images, mapper, today, selectedImage, err, sleepLeft, entry, outcome,
          seen>>

(***************************************************************************)
(* Bounds of the model.                                                    *)
(***************************************************************************)
UnitsPerDay == 3     \* clock resolution: instants per day
PreEpoch == 2        \* the clock may start this many instants before 2000-01-01 UTC
MaxTime == 3         \* the last instant the clock reaches
MaxPool == 2         \* longest pool given to NewImageMapper by the mapper harness
MaxScore == 2        \* scores range over 0..MaxScore
NumCallers == 2      \* concurrent callers of updateImageForToday in SpecConc

\* time.Date(2000, 1, 1, 0, 0, 0, 0, time.UTC)
Epoch == 0
\* make(chan struct{}, 1)
ImageMutexCap == 1

Times == (0 - PreEpoch)..MaxTime
Offsets == {-1, 0, 1}
\* a location: offset off from UTC, and off + shift from instant at on
FixedZone(o) == [off |-> o, at |-> 0, shift |-> 0]
UTC == FixedZone(0)
\* the locations with a transition: offset +1 as CET, the clock put forward from the
\* second unit of a local day to the third, or back from the third to the second
\* (local midnight is never skipped nor repeated)
DstZones ==
    { [off |-> 1, at |-> a, shift |-> 1] : a \in {t \in 1..MaxTime : (t + 1) % UnitsPerDay = 1} }
    \cup
    { [off |-> 1, at |-> a, shift |-> -1] : a \in {t \in 1..MaxTime : (t + 1) % UnitsPerDay = 2} }
Zones == { FixedZone(o) : o \in Offsets } \cup DstZones
\* image names: "a", "ab", "b" as character codes
Names == { <<1>>, <<1, 2>>, <<2>> }
NoName == <<>>
Scores == 0..MaxScore

RECURSIVE SeqsUpTo(_, _)
SeqsUpTo(S, n) ==
    IF n = 0 THEN { <<>> }
    ELSE LET shorter == SeqsUpTo(S, n - 1)
         IN  shorter \cup { Append(s, x) : s \in {t \in shorter : Len(t) = n - 1}, x \in S }

Range(s) == { s[i] : i \in 1..Len(s) }

(***************************************************************************)
(* time: In(location), Format("2006-01-02"), After, Before                 *)
(***************************************************************************)
\* the offset from UTC in force in loc at instant t (Location.lookup)
OffsetAt(loc, t) == loc.off + (IF loc.shift # 0 /\ t >= loc.at THEN loc.shift ELSE 0)

\* the local clock reading of instant t in loc (Time.In(loc))
Local(t, loc) == t + OffsetAt(loc, t)

\* the calendar date of instant t in location loc, as Format("2006-01-02") prints it
DateStr(t, loc) == Local(t, loc) \div UnitsPerDay

DateStrs == { DateStr(t, loc) : t \in Times, loc \in Zones }

\* time.Date(y, m, d, 0, 0, 0, 0, loc): the instant whose local reading is midnight of
\* day d.  As time.Date does, the offset is looked up at the local reading taken as
\* an instant, and looked up again at the result when that falls on the other side
\* of the transition.
TimeDate(d, loc) ==
    LET unix == d * UnitsPerDay
        offset == OffsetAt(loc, unix)
        utc == unix - offset
        sameSide == (unix >= loc.at) = (utc >= loc.at)
    IN  unix - (IF loc.shift = 0 \/ sameSide THEN offset ELSE OffsetAt(loc, utc))

NextMidnightPlusDay(t, loc) == t + UnitsPerDay

\* time.Date(now.Year(), now.Month(), now.Day()+1, 0, 0, 0, 0, location)
NextMidnight(t, loc) == TimeDate(DateStr(t, loc) + 1, loc)

(***************************************************************************)
(* sort.Strings: byte-wise lexicographic order                             *)
(***************************************************************************)
RECURSIVE StrLess(_, _)
StrLess(a, b) ==
    IF Len(a) = 0 THEN Len(b) > 0
    ELSE IF Len(b) = 0 THEN FALSE
    ELSE IF a[1] # b[1] THEN a[1] < b[1]
    ELSE StrLess(Tail(a), Tail(b))

RECURSIVE Insert(_, _)
Insert(x, s) ==
    IF Len(s) = 0 THEN <<x>>
    ELSE IF StrLess(s[1], x) THEN <<s[1]>> \o Insert(x, Tail(s))
    ELSE <<x>> \o s

RECURSIVE SortStrings(_)
SortStrings(s) ==
    IF Len(s) = 0 THEN <<>> ELSE Insert(s[1], SortStrings(Tail(s)))

(***************************************************************************)
(* ImageMapper                                                             *)
(***************************************************************************)
NewImageMapperUnsorted(imgs) == imgs

\* NewImageMapper: copy and sort
NewImageMapper(imgs) == SortStrings(imgs)

TakesOverOnTie(score, maxScore, selected) == score >= maxScore \/ selected = NoName

TakesOverIfGreater(score, maxScore, selected) == score > maxScore

\* the test of the selection loop: score > maxScore || selectedImage == ""
TakesOver(score, maxScore, selected) == score > maxScore \/ selected = NoName

\* the selection loop over im.images from index i, with (maxScore, selectedImage) = acc
RECURSIVE ScanImages(_, _, _, _)
ScanImages(ims, i, dateStr, acc) ==
    IF i > Len(ims) THEN acc
    ELSE LET score == sha[<<dateStr, ims[i]>>]
         IN  ScanImages(ims, i + 1, dateStr,
                        IF TakesOver(score, acc[1], acc[2]) THEN <<score, ims[i]>> ELSE acc)

\* date.Before(epoch): a comparison of instants, epoch being midnight UTC
BeforeEpoch(date, loc) == date < Epoch

NotBefore(date, clock) == date >= clock

\* date.After(today): a comparison of instants
After(date, clock) == date > clock

GetImageForDateChecksDateFirst(ims, date, clock, loc) ==
    IF After(date, clock) THEN <<NoName, "FutureDate">>
    ELSE IF BeforeEpoch(date, loc) THEN <<NoName, "DateTooEarly">>
    ELSE IF Len(ims) = 0 THEN <<NoName, "EmptyPool">>
    ELSE <<ScanImages(ims, 1, DateStr(date, loc), <<0, NoName>>)[2], "nil">>

\* GetImageForDate(date) on mapper images ims, reading the clock as clock:
\* <<selectedImage, err>>
GetImageForDate(ims, date, clock, loc) ==
    IF Len(ims) = 0 THEN <<NoName, "EmptyPool">>
    ELSE IF After(date, clock) THEN <<NoName, "FutureDate">>
    ELSE IF BeforeEpoch(date, loc) THEN <<NoName, "DateTooEarly">>
    ELSE <<ScanImages(ims, 1, DateStr(date, loc), <<0, NoName>>)[2], "nil">>

(***************************************************************************)
(* Goroutines                                                              *)
(***************************************************************************)
Main == "main"            \* func main
Sched == "sched"          \* go scheduleImageUpdates()
CallerIds == <<"c1", "c2", "c3", "c4">>
Callers == { CallerIds[i] : i \in 1..NumCallers }   \* concurrent callers of updateImageForToday
Tester == "t"             \* a direct caller of NewImageMapper / GetImageForDate
Procs == {Main, Sched, Tester} \cup Callers

\* the positions inside updateImageForToday while the mutex is held
Critical == {"scan", "today", "select", "remove", "open", "copy", "assign", "unlock"}
\* all positions inside updateImageForToday
InRefresh == {"lock"} \cup Critical

\* where updateImageForToday returns to
ReturnPc(p) == IF p = Main THEN "go" ELSE IF p = Sched THEN "compute" ELSE "call"

NoEntry == [name |-> NoName, files |-> <<>>, removeErr |-> FALSE]

(***************************************************************************)
(* The asset directory                                                     *)
(***************************************************************************)
NewImageNameWithoutDate(t, loc) == <<"today_", 0, ".jpg">>

\* fmt.Sprintf("today_%s.jpg", today.Format("2006-01-02"))
NewImageName(t, loc) == <<"today_", DateStr(t, loc), ".jpg">>

\* what os.Create leaves at dst, and what a failed io.Copy leaves: not the whole image
Partial == <<>>

Exists(files, f) == f \in DOMAIN files

\* os.Remove
RemoveFile(files, f) == [x \in DOMAIN files \ {f} |-> files[x]]

\* os.Create then writes: dst holds content c
WriteFile(files, f, c) == [x \in DOMAIN files \cup {f} |-> IF x = f THEN c ELSE files[x]]

\* the image directories of the program runs, as filepath.Walk lists their base names:
\* empty; "b" and "sub/a"; "a", "ab" and "b"
Dirs == { <<>>, << <<2>>, <<1>> >>, << <<1>>, <<1, 2>>, <<2>> >> }

\* getImageList: the base names of the files filepath.Walk visits, in its order
getImageList(dir) == dir

(***************************************************************************)
(* updateImageForToday, one step per action                                *)
(***************************************************************************)
NameTimeReadAgain(p) == now

\* the time the filename is built from: today, read once at main.go:134
NameTime(p) == today[p]

\* newImageName / destPath of the refresh of p
DestName(p) == NewImageName(NameTime(p), location)

CanSendAlways(n) == TRUE

\* a send on the buffered channel goes through while it holds fewer than cap tokens
CanSend(n) == n < ImageMutexCap

\* imageMutex <- struct{}{}: blocks while the channel is full
Lock(p) ==
    /\ pc[p] = "lock"
    /\ CanSend(imageMutex)
    /\ imageMutex' = imageMutex + 1
    /\ entry' = [entry EXCEPT ![p] = [name |-> assetImageFilename, files |-> assetFiles,
                                      removeErr |-> FALSE]]
    /\ pc' = [pc EXCEPT ![p] = "scan"]
    /\ UNCHANGED <<now, location, sha, imageDir, assetFiles, assetImageFilename,
                   images, mapper, today, selectedImage, err, sleepLeft, outcome, seen>>

ScanFailsKeepsLock(p) ==
    /\ pc[p] = "scan"
    /\ pc' = [pc EXCEPT ![p] = ReturnPc(p)]
    /\ entry' = [entry EXCEPT ![p] = NoEntry]
    /\ UNCHANGED <<now, location, sha, imageDir, assetFiles, assetImageFilename,
                   imageMutex, images, mapper, today, selectedImage, err, sleepLeft, outcome, seen>>

\* getImageList fails: log and return
ScanFails(p) ==
    /\ pc[p] = "scan"
    /\ err' = [err EXCEPT ![p] = "DirectoryScanFailure"]
    /\ outcome' = [outcome EXCEPT ![p] = "DirectoryScanFailure"]
    /\ pc' = [pc EXCEPT ![p] = "unlock"]
    /\ UNCHANGED <<now, location, sha, imageDir, assetFiles, assetImageFilename,
                   imageMutex, images, mapper, today, selectedImage, sleepLeft, entry, seen>>

\* getImageList succeeds; len(images) == 0 returns, otherwise NewImageMapper(images)
Scan(p) ==
    /\ pc[p] = "scan"
    /\ LET list == getImageList(imageDir)
       IN /\ images' = [images EXCEPT ![p] = list]
          /\ IF Len(list) = 0
             THEN /\ outcome' = [outcome EXCEPT ![p] = "NoImages"]
                  /\ pc' = [pc EXCEPT ![p] = "unlock"]
                  /\ UNCHANGED mapper
             ELSE /\ mapper' = [mapper EXCEPT ![p] = NewImageMapper(list)]
                  /\ pc' = [pc EXCEPT ![p] = "today"]
                  /\ UNCHANGED outcome
    /\ UNCHANGED <<now, location, sha, imageDir, assetFiles, assetImageFilename,
                   imageMutex, today, selectedImage, err, sleepLeft, entry, seen>>

\* today := time.Now().In(location)
Today(p) ==
    /\ pc[p] = "today"
    /\ today' = [today EXCEPT ![p] = now]
    /\ pc' = [pc EXCEPT ![p] = "select"]
    /\ UNCHANGED <<now, location, sha, imageDir, assetFiles, assetImageFilename,
                   imageMutex, images, mapper, selectedImage, err, sleepLeft, entry, outcome, seen>>

SelectNextPcIgnoringErr(e) == "remove"

\* if err != nil { return } after mapper.GetImageForDate(today)
SelectNextPc(e) == IF e # "nil" THEN "unlock" ELSE "remove"

\* selectedImage, err := mapper.GetImageForDate(today)
Select(p) ==
    /\ pc[p] = "select"
    /\ LET r == GetImageForDate(mapper[p], today[p], now, location)
       IN  /\ selectedImage' = [selectedImage EXCEPT ![p] = r[1]]
           /\ err' = [err EXCEPT ![p] = r[2]]
           /\ outcome' = [outcome EXCEPT ![p] = IF r[2] # "nil" THEN r[2] ELSE @]
           /\ pc' = [pc EXCEPT ![p] = SelectNextPc(r[2])]
    /\ UNCHANGED <<now, location, sha, imageDir, assetFiles, assetImageFilename,
                   imageMutex, images, mapper, today, sleepLeft, entry, seen>>

\* assetImageFilename == "": nothing to remove
RemoveNone(p) ==
    /\ pc[p] = "remove"
    /\ assetImageFilename = NoName
    /\ pc' = [pc EXCEPT ![p] = "open"]
    /\ UNCHANGED <<now, location, sha, imageDir, assetFiles, assetImageFilename,
                   imageMutex, images, mapper, today, selectedImage, err, sleepLeft,
                   entry, outcome, seen>>

\* os.Remove(filepath.Join(assetDir, assetImageFilename)) succeeds
RemoveOk(p) ==
    /\ pc[p] = "remove"
    /\ assetImageFilename # NoName
    /\ Exists(assetFiles, assetImageFilename)
    /\ assetFiles' = RemoveFile(assetFiles, assetImageFilename)
    /\ err' = [err EXCEPT ![p] = "nil"]
    /\ pc' = [pc EXCEPT ![p] = "open"]
    /\ UNCHANGED <<now, location, sha, imageDir, assetImageFilename, imageMutex,
                   images, mapper, today, selectedImage, sleepLeft, entry, outcome, seen>>

RemoveFailsAborts(p) ==
    /\ pc[p] = "remove"
    /\ assetImageFilename # NoName
    /\ err' = [err EXCEPT ![p] = "FileDeleteFailure"]
    /\ entry' = [entry EXCEPT ![p].removeErr = TRUE]
    /\ outcome' = [outcome EXCEPT ![p] = "FileDeleteFailure"]
    /\ pc' = [pc EXCEPT ![p] = "unlock"]
    /\ UNCHANGED <<now, location, sha, imageDir, assetFiles, assetImageFilename,
                   imageMutex, images, mapper, today, selectedImage, sleepLeft, seen>>

\* os.Remove fails: logged, and the refresh goes on
RemoveFails(p) ==
    /\ pc[p] = "remove"
    /\ assetImageFilename # NoName
    /\ err' = [err EXCEPT ![p] = "FileDeleteFailure"]
    /\ entry' = [entry EXCEPT ![p].removeErr = TRUE]
    /\ pc' = [pc EXCEPT ![p] = "open"]
    /\ UNCHANGED <<now, location, sha, imageDir, assetFiles, assetImageFilename,
                   imageMutex, images, mapper, today, selectedImage, sleepLeft, outcome, seen>>

\* copyFile: os.Open(src) or os.Create(dst) fails; dst is not touched
CopyOpenFails(p) ==
    /\ pc[p] = "open"
    /\ err' = [err EXCEPT ![p] = "FileCopyFailure"]
    /\ outcome' = [outcome EXCEPT ![p] = "FileCopyFailure"]
    /\ pc' = [pc EXCEPT ![p] = "unlock"]
    /\ UNCHANGED <<now, location, sha, imageDir, assetFiles, assetImageFilename,
                   imageMutex, images, mapper, today, selectedImage, sleepLeft, entry, seen>>

\* copyFile: os.Open(src) and os.Create(dst) succeed; dst exists, truncated
CopyOpen(p) ==
    /\ pc[p] = "open"
    /\ selectedImage[p] \in Range(imageDir)
    /\ assetFiles' = WriteFile(assetFiles, DestName(p), Partial)
    /\ pc' = [pc EXCEPT ![p] = "copy"]
    /\ UNCHANGED <<now, location, sha, imageDir, assetImageFilename, imageMutex,
                   images, mapper, today, selectedImage, err, sleepLeft, entry, outcome, seen>>

CopyDataFailsGoesOn(p) ==
    /\ pc[p] = "copy"
    /\ err' = [err EXCEPT ![p] = "FileCopyFailure"]
    /\ pc' = [pc EXCEPT ![p] = "assign"]
    /\ UNCHANGED <<now, location, sha, imageDir, assetFiles, assetImageFilename,
                   imageMutex, images, mapper, today, selectedImage, sleepLeft, entry,
                   outcome, seen>>

\* copyFile: io.Copy fails part-way
CopyDataFails(p) ==
    /\ pc[p] = "copy"
    /\ err' = [err EXCEPT ![p] = "FileCopyFailure"]
    /\ outcome' = [outcome EXCEPT ![p] = "FileCopyFailure"]
    /\ pc' = [pc EXCEPT ![p] = "unlock"]
    /\ UNCHANGED <<now, location, sha, imageDir, assetFiles, assetImageFilename,
                   imageMutex, images, mapper, today, selectedImage, sleepLeft, entry, seen>>

\* copyFile: io.Copy writes all the bytes of the source image
CopyData(p) ==
    /\ pc[p] = "copy"
    /\ assetFiles' = WriteFile(assetFiles, DestName(p), selectedImage[p])
    /\ err' = [err EXCEPT ![p] = "nil"]
    /\ pc' = [pc EXCEPT ![p] = "assign"]
    /\ UNCHANGED <<now, location, sha, imageDir, assetImageFilename, imageMutex,
                   images, mapper, today, selectedImage, sleepLeft, entry, outcome, seen>>

\* assetImageFilename = newImageName
Assign(p) ==
    /\ pc[p] = "assign"
    /\ assetImageFilename' = DestName(p)
    /\ outcome' = [outcome EXCEPT ![p] = "Success"]
    /\ pc' = [pc EXCEPT ![p] = "unlock"]
    /\ UNCHANGED <<now, location, sha, imageDir, assetFiles, imageMutex,
                   images, mapper, today, selectedImage, err, sleepLeft, entry, seen>>

ReleaseNothing(m) == m

\* <-imageMutex
Release(m) == m - 1

\* the deferred func() { <-imageMutex }() and the return to the caller
Unlock(p) ==
    /\ pc[p] = "unlock"
    /\ imageMutex' = Release(imageMutex)
    /\ pc' = [pc EXCEPT ![p] = ReturnPc(p)]
    /\ images' = [images EXCEPT ![p] = <<>>]
    /\ mapper' = [mapper EXCEPT ![p] = <<>>]
    /\ today' = [today EXCEPT ![p] = 0]
    /\ selectedImage' = [selectedImage EXCEPT ![p] = NoName]
    /\ err' = [err EXCEPT ![p] = "nil"]
    /\ entry' = [entry EXCEPT ![p] = NoEntry]
    /\ outcome' = [outcome EXCEPT ![p] = "none"]
    /\ UNCHANGED <<now, location, sha, imageDir, assetFiles, assetImageFilename, sleepLeft, seen>>

updateImageForToday(p) ==
    \/ Lock(p) \/ ScanFails(p) \/ Scan(p) \/ Today(p) \/ Select(p)
    \/ RemoveNone(p) \/ RemoveOk(p) \/ RemoveFails(p)
    \/ CopyOpenFails(p) \/ CopyOpen(p) \/ CopyDataFails(p) \/ CopyData(p)
    \/ Assign(p) \/ Unlock(p)

(***************************************************************************)
(* main and scheduleImageUpdates                                           *)
(***************************************************************************)
MainGoWithoutWaiting ==
    /\ pc[Main] \in InRefresh \cup {"go"}
    /\ pc' = [pc EXCEPT ![Main] = "serve", ![Sched] = "compute"]
    /\ UNCHANGED <<now, location, sha, imageDir, assetFiles, assetImageFilename,
                   imageMutex, images, mapper, today, selectedImage, err, sleepLeft,
                   entry, outcome, seen>>

\* main: updateImageForToday() has returned; go scheduleImageUpdates(), then serve
MainGo ==
    /\ pc[Main] = "go"
    /\ pc' = [pc EXCEPT ![Main] = "serve", ![Sched] = "compute"]
    /\ UNCHANGED <<now, location, sha, imageDir, assetFiles, assetImageFilename,
                   imageMutex, images, mapper, today, selectedImage, err, sleepLeft,
                   entry, outcome, seen>>

\* now := time.Now().In(location); duration := nextMidnight.Sub(now); time.Sleep begins
SchedCompute ==
    /\ pc[Sched] = "compute"
    /\ sleepLeft' = NextMidnight(now, location) - now
    /\ pc' = [pc EXCEPT ![Sched] = "sleep"]
    /\ UNCHANGED <<now, location, sha, imageDir, assetFiles, assetImageFilename,
                   imageMutex, images, mapper, today, selectedImage, err, entry, outcome, seen>>

\* time.Sleep(duration) returns; updateImageForToday() is called
SchedWake ==
    /\ pc[Sched] = "sleep"
    /\ sleepLeft <= 0
    /\ pc' = [pc EXCEPT ![Sched] = "lock"]
    /\ UNCHANGED <<now, location, sha, imageDir, assetFiles, assetImageFilename,
                   imageMutex, images, mapper, today, selectedImage, err, sleepLeft,
                   entry, outcome, seen>>

scheduleImageUpdates == SchedCompute \/ SchedWake \/ updateImageForToday(Sched)

(***************************************************************************)
(* The environment: the clock and the image directory                      *)
(***************************************************************************)
\* one unit of time passes
Tick ==
    /\ now < MaxTime
    /\ now' = now + 1
    /\ sleepLeft' = IF pc[Sched] = "sleep" /\ sleepLeft > 0 THEN sleepLeft - 1 ELSE sleepLeft
    /\ UNCHANGED <<location, sha, imageDir, assetFiles, assetImageFilename, imageMutex,
                   pc, images, mapper, today, selectedImage, err, entry, outcome, seen>>

\* the wall clock is set back (time.Sleep, on the monotonic clock, is not affected)
ClockSetBack ==
    /\ \E t \in Times : t < now /\ now' = t
    /\ UNCHANGED <<location, sha, imageDir, assetFiles, assetImageFilename, imageMutex,
                   pc, images, mapper, today, selectedImage, err, sleepLeft, entry, outcome, seen>>

\* len(s) of a filename: "" or "today_2006-01-02.jpg"
StrLen(s) == IF s = NoName THEN 0 ELSE 20

\* a string value as a handler holds it: data pointer and length, two words
Header(by, data, length) == [by |-> by, ptr |-> data, len |-> StrLen(length)]
NoRead == Header("none", NoName, NoName)

\* the refreshes that are at the assignment of main.go:164
Writers == { p \in Procs : pc[p] = "assign" }

\* a handler loads assetImageFilename, taking no lock: the two words of the value it
\* finds or, when the load races with the assignment of a refresh, each word from the
\* old or from the new value
Load(by) ==
    /\ pc[Main] = "serve"
    /\ LET values == {assetImageFilename} \cup { DestName(p) : p \in Writers }
       IN  seen' \in { Header(by, d, l) : d \in values, l \in values }
    /\ UNCHANGED <<now, location, sha, imageDir, assetFiles, assetImageFilename,
                   imageMutex, pc, images, mapper, today, selectedImage, err,
                   sleepLeft, entry, outcome>>

\* servePage: "/assets/" + assetImageFilename
servePage == Load("servePage")

\* the /favicon.ico handler: filepath.Join(assetDir, assetImageFilename)
serveFavicon == Load("favicon")

\* images are added to or removed from the image directory
ChangeImages ==
    /\ \E d \in Dirs : d # imageDir /\ imageDir' = d
    /\ UNCHANGED <<now, location, sha, assetFiles, assetImageFilename, imageMutex,
                   pc, images, mapper, today, selectedImage, err, sleepLeft, entry, outcome, seen>>

(***************************************************************************)
(* Callers of the mapper and of the refresh outside main                   *)
(***************************************************************************)
\* mapper := NewImageMapper(images)
TestNew ==
    /\ pc[Tester] = "new"
    /\ mapper' = [mapper EXCEPT ![Tester] = NewImageMapper(images[Tester])]
    /\ pc' = [pc EXCEPT ![Tester] = "get"]
    /\ UNCHANGED <<now, location, sha, imageDir, assetFiles, assetImageFilename,
                   imageMutex, images, today, selectedImage, err, sleepLeft, entry, outcome, seen>>

\* selectedImage, err := mapper.GetImageForDate(date)
TestGet ==
    /\ pc[Tester] = "get"
    /\ LET r == GetImageForDate(mapper[Tester], today[Tester], now, location)
       IN  /\ selectedImage' = [selectedImage EXCEPT ![Tester] = r[1]]
           /\ err' = [err EXCEPT ![Tester] = r[2]]
    /\ pc' = [pc EXCEPT ![Tester] = "done"]
    /\ UNCHANGED <<now, location, sha, imageDir, assetFiles, assetImageFilename,
                   imageMutex, images, mapper, today, sleepLeft, entry, outcome, seen>>

\* a goroutine calls updateImageForToday()
Call(p) ==
    /\ pc[p] = "call"
    /\ pc' = [pc EXCEPT ![p] = "lock"]
    /\ UNCHANGED <<now, location, sha, imageDir, assetFiles, assetImageFilename,
                   imageMutex, images, mapper, today, selectedImage, err, sleepLeft,
                   entry, outcome, seen>>

(***************************************************************************)
(* Initial states and specifications                                       *)
(***************************************************************************)
\* the digest in the program runs: a fixed score table, with ties
ShaTables ==
    { [x \in DateStrs \X Names |-> (x[1] + Len(x[2]) + x[2][1]) % (MaxScore + 1)] }

\* all score tables over the names of a pool, the same for every date
ShaOn(pool) ==
    { [x \in DateStrs \X Names |-> IF x[2] \in Range(pool) THEN f[x[2]] ELSE 0] :
        f \in [Range(pool) -> Scores] }

InitLocals ==
    /\ images = [p \in Procs |-> <<>>]
    /\ mapper = [p \in Procs |-> <<>>]
    /\ today = [p \in Procs |-> 0]
    /\ selectedImage = [p \in Procs |-> NoName]
    /\ err = [p \in Procs |-> "nil"]
    /\ entry = [p \in Procs |-> NoEntry]
    /\ outcome = [p \in Procs |-> "none"]
    /\ sleepLeft = 0

InitShared ==
    /\ location \in Zones
    /\ assetFiles = <<>>
    /\ assetImageFilename = NoName
    /\ imageMutex = 0
    /\ seen = NoRead

\* the program: main has set location and created assetDir, and calls updateImageForToday()
Init ==
    /\ InitShared
    /\ InitLocals
    /\ now = 0 - PreEpoch
    /\ sha \in ShaTables
    /\ imageDir \in Dirs
    /\ pc = [p \in Procs |-> IF p = Main THEN "lock" ELSE "off"]

Next ==
    \/ updateImageForToday(Main)
    \/ MainGo
    \/ scheduleImageUpdates
    \/ Tick
    \/ ChangeImages

Spec == Init /\ [][Next]_vars

\* the program and the requests that http.ListenAndServe hands to the handlers
NextServe ==
    \/ Next
    \/ servePage
    \/ serveFavicon

SpecServe == Init /\ [][NextServe]_vars

\* the program on a machine whose wall clock may be set back
NextClock == Next \/ ClockSetBack

SpecClock == Init /\ [][NextClock]_vars

\* the program, its goroutines scheduled fairly
FairSpec == Spec /\ WF_vars(updateImageForToday(Main)) /\ WF_vars(MainGo)
                 /\ WF_vars(scheduleImageUpdates)

\* NumCallers goroutines that call updateImageForToday() concurrently, again and again
InitConc ==
    /\ InitShared
    /\ InitLocals
    /\ now = 0 - PreEpoch
    /\ sha \in ShaTables
    /\ imageDir \in Dirs
    /\ pc = [p \in Procs |-> IF p \in Callers THEN "call" ELSE "off"]

NextConc ==
    \/ \E p \in Callers : Call(p) \/ updateImageForToday(p)
    \/ Tick
    \/ ChangeImages

SpecConc == InitConc /\ [][NextConc]_vars

\* one call of NewImageMapper(pool).GetImageForDate(date), for every pool, date and clock
InitMapper ==
    /\ InitShared
    /\ \E pool \in SeqsUpTo(Names, MaxPool), date \in Times :
          /\ images = [p \in Procs |-> IF p = Tester THEN pool ELSE <<>>]
          /\ today = [p \in Procs |-> IF p = Tester THEN date ELSE 0]
          /\ sha \in ShaOn(pool)
    /\ mapper = [p \in Procs |-> <<>>]
    /\ selectedImage = [p \in Procs |-> NoName]
    /\ err = [p \in Procs |-> "nil"]
    /\ entry = [p \in Procs |-> NoEntry]
    /\ outcome = [p \in Procs |-> "none"]
    /\ sleepLeft = 0
    /\ now \in Times
    /\ imageDir = <<>>
    /\ pc = [p \in Procs |-> IF p = Tester THEN "new" ELSE "off"]

NextMapper == TestNew \/ TestGet

SpecMapper == InitMapper /\ [][NextMapper]_vars

(***************************************************************************)
(* Properties                                                              *)
(***************************************************************************)
Published == assetImageFilename # NoName

Running == { p \in Procs : pc[p] \in Critical }

\* the refresh of p has taken an exit path that comes before the file operations
FailedEarly(p) ==
    outcome[p] \in {"DirectoryScanFailure", "NoImages", "EmptyPool", "FutureDate", "DateTooEarly"}

\* C1: once a filename is published, the file of that name exists in the asset
\* directory, in every state, inside a refresh and after a failed one.
C1_PublishedFileExists == Published => Exists(assetFiles, assetImageFilename)

\* C2: after the file copy of a refresh has failed, the published filename is the one
\* the refresh found and the file it found published is still in the asset directory.
C2_CopyFailureKeepsPrior ==
    \A p \in Procs :
        outcome[p] = "FileCopyFailure" =>
            /\ assetImageFilename = entry[p].name
            /\ Exists(entry[p].files, entry[p].name) => Exists(assetFiles, entry[p].name)

\* C3: a refresh that fails at the directory scan, on an empty pool or on a selection
\* error leaves the published filename and every asset file as it found them.
C3_EarlyFailureIsNoOp ==
    \A p \in Procs :
        FailedEarly(p) =>
            /\ assetImageFilename = entry[p].name
            /\ assetFiles = entry[p].files

\* C3 witness: a selection error (the wall clock was set back between the two clock
\* reads) in a refresh that found a published file
C3_Witness ==
    \E p \in Procs :
        /\ pc[p] = "unlock"
        /\ outcome[p] = "FutureDate"
        /\ entry[p].name # NoName
        /\ Exists(entry[p].files, entry[p].name)

\* C4: at most one caller of updateImageForToday holds the mutex at any time.
C4_MutualExclusion == Cardinality(Running) <= 1

\* C4 witness: one caller is at its file operations while another is blocked on the send
C4_Witness ==
    \E p, q \in Callers :
        /\ p # q
        /\ pc[p] \in {"remove", "open", "copy", "assign"}
        /\ pc[q] = "lock"

\* C5: once a refresh has succeeded, the asset directory holds exactly one file.
C5_ExactlyOneAssetFile == Published => Cardinality(DOMAIN assetFiles) = 1

\* C6: the scheduler, once started, never leaves its loop; every refresh it starts
\* returns and the loop is back at its sleep, whatever the outcome; and a sleep that
\* has run out is followed by a new refresh.
C6_SchedulerResumes ==
    /\ [][pc[Sched] # "off" => pc'[Sched] \in {"compute", "sleep"} \cup InRefresh]_vars
    /\ (pc[Sched] \in InRefresh) ~> (pc[Sched] = "sleep")
    /\ (pc[Sched] = "sleep" /\ sleepLeft = 0) ~> (pc[Sched] \in InRefresh)

\* C6 witness: a refresh of the scheduler is about to return after a failed copy, the
\* file published before it still there
C6_Witness ==
    /\ pc[Sched] = "unlock"
    /\ outcome[Sched] = "FileCopyFailure"
    /\ Published
    /\ Exists(assetFiles, assetImageFilename)

\* the mapper harness has called GetImageForDate and got an image
Selected == pc[Tester] = "done" /\ err[Tester] = "nil"

\* C7: the selected image is the one GetImageForDate returns for every pool with the
\* same members (every permutation among them) and every instant of the same calendar date.
C7_DependsOnMembersAndDate ==
    Selected =>
        \A pool \in SeqsUpTo(Names, MaxPool), date \in Times :
            ( /\ Range(pool) = Range(images[Tester])
              /\ DateStr(date, location) = DateStr(today[Tester], location)
              /\ GetImageForDate(NewImageMapper(pool), date, now, location)[2] = "nil" )
            => GetImageForDate(NewImageMapper(pool), date, now, location)[1]
                 = selectedImage[Tester]

\* C7 witness: a pool given in an order that is not the sorted one, its members tied
C7_Witness ==
    /\ Selected
    /\ images[Tester] # mapper[Tester]
    /\ \A n \in Range(images[Tester]) :
          sha[<<DateStr(today[Tester], location), n>>] = MaxScore

\* C8: the selected image has the greatest score of the pool, and is the first in
\* lexicographic order among the members with that score.
C8_GreatestScoreFirstOnTie ==
    Selected =>
        LET d == DateStr(today[Tester], location)
            best == selectedImage[Tester]
        IN  \A n \in Range(images[Tester]) :
                /\ sha[<<d, n>>] <= sha[<<d, best>>]
                /\ sha[<<d, n>>] = sha[<<d, best>>] => ~StrLess(n, best)

\* C8 witness: two members share the greatest score, and that score is 0
C8_Witness ==
    /\ Selected
    /\ Cardinality(Range(images[Tester])) >= 2
    /\ \A n \in Range(images[Tester]) :
          sha[<<DateStr(today[Tester], location), n>>] = 0

\* C9: the selected image is a member of the input pool, never the empty string.
C9_SelectedIsMember ==
    Selected => selectedImage[Tester] \in Range(images[Tester])

\* C9 witness: a selection from a pool of one image whose score is 0
C9_Witness ==
    /\ Selected
    /\ Len(images[Tester]) = 1
    /\ sha[<<DateStr(today[Tester], location), images[Tester][1]>>] = 0

\* C10: on a non-empty pool, a date that is 2000-01-01 in the configured timezone and
\* not in the future is accepted, and a date before 2000-01-01 in the configured
\* timezone (and not in the future) is rejected with DateTooEarly.
C10_EpochInConfiguredZone ==
    (pc[Tester] = "done" /\ Len(images[Tester]) > 0 /\ today[Tester] <= now) =>
        /\ DateStr(today[Tester], location) = DateStr(Epoch, UTC) => err[Tester] = "nil"
        /\ DateStr(today[Tester], location) < DateStr(Epoch, UTC) => err[Tester] = "DateTooEarly"

\* the mapper harness has called GetImageForDate on a non-empty pool
CalledOnPool == pc[Tester] = "done" /\ Len(images[Tester]) > 0

C12_EmptyPoolFirst ==
    (pc[Tester] = "done" /\ Len(images[Tester]) = 0) =>
        /\ err[Tester] = "EmptyPool"
        /\ selectedImage[Tester] = NoName

\* C12 witness: an empty pool and a date that is both in the future and before 2000
C12_Witness ==
    /\ pc[Tester] = "done"
    /\ Len(images[Tester]) = 0
    /\ today[Tester] > now
    /\ today[Tester] < Epoch
    /\ err[Tester] = "EmptyPool"

\* main is about to start the scheduler and the listener
ServingBegins == pc[Main] # "serve" /\ pc'[Main] = "serve"

C14_DeleteFailureDoesNotBlock ==
    \A p \in Procs :
        entry[p].removeErr =>
            /\ pc[p] \in {"open", "copy", "assign", "unlock"}
            /\ pc[p] = "unlock" =>
                 /\ err[p] \in {"nil", "FileCopyFailure"}
                 /\ err[p] = "nil" =>
                      /\ outcome[p] = "Success"
                      /\ assetImageFilename = DestName(p)
                      /\ Exists(assetFiles, DestName(p))
                      /\ assetFiles[DestName(p)] = selectedImage[p]

\* C14 witness: the delete has failed, and the refresh has published a new name
C14_Witness ==
    \E p \in Procs :
        /\ entry[p].removeErr
        /\ pc[p] = "unlock"
        /\ outcome[p] = "Success"
        /\ assetImageFilename # entry[p].name
        /\ Exists(assetFiles, entry[p].name)

\* C15: the published filename changes only in the last step of a refresh, after
\* copyFile has returned nil, and its new value names a file that holds the whole
\* selected image.
C15_FilenameUpdatedLast ==
    [][assetImageFilename' # assetImageFilename =>
          \E p \in Procs :
              /\ pc[p] = "assign"
              /\ pc'[p] = "unlock"
              /\ err[p] = "nil"
              /\ assetFiles' = assetFiles
              /\ assetImageFilename' = DestName(p)
              /\ Exists(assetFiles, DestName(p))
              /\ assetFiles[DestName(p)] = selectedImage[p]]_vars

\* C15 witness: a refresh has replaced one published filename by another
C15_Witness ==
    \E p \in Procs :
        /\ pc[p] = "unlock"
        /\ outcome[p] = "Success"
        /\ entry[p].name # NoName
        /\ assetImageFilename # entry[p].name

\* the scheduler computes its sleep
Computes == pc[Sched] = "compute" /\ pc'[Sched] = "sleep"

\* the timer of time.Sleep expires
TimerExpires == pc[Sched] = "sleep" /\ sleepLeft > 0 /\ sleepLeft' = 0

\* t is the first instant of a local calendar date
LocalMidnight(t) ==
    /\ Local(t, location) % UnitsPerDay = 0
    /\ DateStr(t - 1, location) = DateStr(t, location) - 1

Publishes(p) == pc[p] = "assign" /\ pc'[p] = "unlock"

C19_LockHeldExactlyDuringRefresh ==
    /\ imageMutex = Cardinality(Running)
    /\ Running = {} => CanSend(imageMutex)

\* C19 witness: a refresh has finished, none is in progress, the lock is free and
\* another caller is about to acquire it
C19_Witness ==
    /\ Running = {}
    /\ imageMutex = 0
    /\ Published
    /\ \E q \in Callers : pc[q] = "lock"

\* C20: when a refresh has published today_D.jpg, D is the date of the one clock
\* reading of the refresh and the file holds the image selected for D on the pool the
\* refresh has scanned.
C20_FileIsSelectionForNameDate ==
    \A p \in Procs :
        (pc[p] = "unlock" /\ outcome[p] = "Success") =>
            /\ assetImageFilename = NewImageName(today[p], location)
            /\ Exists(assetFiles, assetImageFilename)
            /\ assetFiles[assetImageFilename] =
                 ScanImages(NewImageMapper(images[p]), 1, assetImageFilename[2],
                            <<0, NoName>>)[2]

\* C20 witness: local midnight has passed between the clock reading and the publishing
C20_Witness ==
    \E p \in Procs :
        /\ pc[p] = "unlock"
        /\ outcome[p] = "Success"
        /\ DateStr(now, location) > DateStr(today[p], location)
        /\ Len(images[p]) > 1

\* C18: every value a handler reads from assetImageFilename is a whole filename, the
\* previous one or the new one: its length is the length of the string its data
\* pointer points to.
C18_ReaderSeesWholeFilename ==
    seen.by # "none" => seen.len = StrLen(seen.ptr)

====
